---------------------------- MODULE Spec2Model ----------------------------
(***************************************************************************)
(* A model of icx/cui.py: Column, RowPrinter, Row/Header and MapPrinter.   *)
(*                                                                         *)
(* A Python str is a sequence of one-character strings.  A Python value    *)
(* handed to a printer is a str or a non-negative int:                     *)
(*     [t |-> "str", s |-> <<"o","k">>]      [t |-> "int", n |-> 7]        *)
(* An exception is the name of its class; "" is normal completion.         *)
(***************************************************************************)
EXTENDS Integers, Sequences, FiniteSets, TLC

VARIABLES
    columns,   \* the Column/Row/Header objects handed to both constructors
    rp,        \* the RowPrinter's private fields
    mp,        \* the MapPrinter's private fields
    out,       \* the file: the lines click.secho has written, in order
    err,       \* the exception the last call raised, "" if it returned
    ret,       \* what the last call returned
    log        \* the calls made so far, each with the lines it wrote

vars == <<columns, rp, mp, out, err, ret, log>>

---------------------------------------------------------------------------
(* Python str helpers *)

Max(a, b) == IF a >= b THEN a ELSE b

Min(a, b) == IF a <= b THEN a ELSE b

\* c * n
Rep(c, n) == [i \in 1..n |-> c]

\* s[:n] for n >= 0
Take(s, n) == SubSeq(s, 1, Min(n, Len(s)))

\* s[-n:]; Python's s[-0:] is s[0:], the whole string
Last(s, n) == IF n = 0 THEN s ELSE SubSeq(s, Max(1, Len(s) - n + 1), Len(s))

\* c in s
Contains(s, c) == \E i \in 1..Len(s) : s[i] = c

RECURSIVE Join(_, _)
\* sep.join(ss)
Join(sep, ss) ==
    IF ss = <<>> THEN <<>>
    ELSE IF Len(ss) = 1 THEN Head(ss)
    ELSE Head(ss) \o sep \o Join(sep, Tail(ss))

Digits == <<"0", "1", "2", "3", "4", "5", "6", "7", "8", "9">>

IsDigit(c) == \E d \in 1..10 : Digits[d] = c

DigitVal(c) == (CHOOSE d \in 1..10 : Digits[d] = c) - 1

RECURSIVE IntToStr(_)
\* str(n)
IntToStr(n) == IF n < 0 THEN <<"-">> \o IntToStr(-n)
               ELSE IF n < 10 THEN <<Digits[n + 1]>>
               ELSE IntToStr(n \div 10) \o <<Digits[(n % 10) + 1]>>

RECURSIVE StrToInt(_)
\* int(s) for a string of digits; the empty string counts 0
StrToInt(s) == IF s = <<>> THEN 0
               ELSE 10 * StrToInt(SubSeq(s, 1, Len(s) - 1)) + DigitVal(s[Len(s)])

StrVal(s) == [t |-> "str", s |-> s]

IntVal(n) == [t |-> "int", n |-> n]

---------------------------------------------------------------------------
(* Python's format mini-language, the part cui.py and its callers use:     *)
(*     [[fill]align][0][width][.precision]     align one of < > ^          *)

Aligns == {"<", ">", "^"}

Result(e, s) == [err |-> e, s |-> s]

\* the length of the run of digits of s that starts at position i
RECURSIVE DigitRun(_, _)
DigitRun(s, i) == IF i <= Len(s) /\ IsDigit(s[i]) THEN 1 + DigitRun(s, i + 1) ELSE 0

\* how many characters of spec are its [[fill]align]
AlignLen(spec) ==
    IF Len(spec) >= 2 /\ spec[2] \in Aligns THEN 2
    ELSE IF Len(spec) >= 1 /\ spec[1] \in Aligns THEN 1
    ELSE 0

\* The parsed spec, given where its parts lie: a characters of [[fill]align], the
\* 0 flag or not, wlen digits of width from position p1, plen digits of precision
\* after a "." (hasPrec).  prec = -1 when none is given, align = "" when none is.
ParsedSpec(spec, a, zero, p1, wlen, hasPrec, plen) ==
    [ok    |-> (p1 + wlen + (IF hasPrec THEN 1 + plen ELSE 0) = Len(spec) + 1)
               /\ (hasPrec => plen > 0),
     fill  |-> IF a = 2 THEN spec[1] ELSE IF zero THEN "0" ELSE " ",
     align |-> IF a = 0 THEN "" ELSE spec[a],
     zero  |-> zero,
     width |-> StrToInt(SubSeq(spec, p1, p1 + wlen - 1)),
     prec  |-> IF hasPrec THEN StrToInt(SubSeq(spec, p1 + wlen + 1, p1 + wlen + plen)) ELSE -1]

ParsePrecision(spec, a, zero, p1, wlen, hasPrec) ==
    ParsedSpec(spec, a, zero, p1, wlen, hasPrec,
               IF hasPrec THEN DigitRun(spec, p1 + wlen + 1) ELSE 0)

ParseWidth(spec, a, zero, p1, wlen) ==
    ParsePrecision(spec, a, zero, p1, wlen, p1 + wlen <= Len(spec) /\ spec[p1 + wlen] = ".")

ParseZero(spec, a, zero) ==
    ParseWidth(spec, a, zero, IF zero THEN a + 2 ELSE a + 1,
               DigitRun(spec, IF zero THEN a + 2 ELSE a + 1))

ParseAlign(spec, a) == ParseZero(spec, a, a + 1 <= Len(spec) /\ spec[a + 1] = "0")

\* the format_spec spec, parsed
ParseSpec(spec) == ParseAlign(spec, AlignLen(spec))

\* text padded to width: '<' pads on the right, '>' on the left, '^' on both
\* sides with the odd character on the right.
Pad(text, fill, align, width) ==
    Rep(fill, IF align = ">" THEN Max(0, width - Len(text))
              ELSE IF align = "^" THEN Max(0, width - Len(text)) \div 2
              ELSE 0)
    \o text
    \o Rep(fill, IF align = ">" THEN 0
                 ELSE IF align = "^" THEN Max(0, width - Len(text)) - (Max(0, width - Len(text)) \div 2)
                 ELSE Max(0, width - Len(text)))

\* format(value, spec) with spec parsed to f: a str is cut to the precision and
\* aligned left by default; an int takes no precision and is aligned right.
FormatParsed(value, f) ==
    IF ~f.ok THEN Result("ValueError", <<>>)
    ELSE IF value.t = "str" THEN
        Result("", Pad(IF f.prec >= 0 THEN Take(value.s, f.prec) ELSE value.s,
                       f.fill, IF f.align = "" THEN "<" ELSE f.align, f.width))
    ELSE IF f.prec >= 0 THEN Result("ValueError", <<>>)
    ELSE Result("", Pad(IntToStr(value.n), f.fill,
                        IF f.align = "" THEN ">" ELSE f.align, f.width))

\* format(value, spec): [err, s]
FormatValue(value, spec) == FormatParsed(value, ParseSpec(spec))

\* the position of the first "}" of s at or after i, 0 if there is none
RECURSIVE FindClose(_, _)
FindClose(s, i) == IF i > Len(s) THEN 0
                   ELSE IF s[i] = "}" THEN i ELSE FindClose(s, i + 1)

\* first a, then b: the first error, or the two strings joined
Then(a, b) ==
    IF a.err # "" THEN a ELSE IF b.err # "" THEN b ELSE Result("", a.s \o b.s)

\* tmpl.format(*args) from position i of tmpl with k arguments consumed: [err, s].
\* Replacement fields are automatically numbered: {} and {:spec}; j is the
\* position of the "}" that closes the field opened at i.
RECURSIVE FormatFrom(_, _, _, _)
RECURSIVE FormatField(_, _, _, _, _)
FormatField(tmpl, args, i, k, j) ==
    IF j = 0 THEN Result("ValueError", <<>>)
    ELSE IF j > i + 1 /\ tmpl[i + 1] # ":" THEN Result("KeyError", <<>>)
    ELSE IF k + 1 > Len(args) THEN Result("IndexError", <<>>)
    ELSE Then(FormatValue(args[k + 1], SubSeq(tmpl, i + 2, j - 1)),
              FormatFrom(tmpl, args, j + 1, k + 1))

FormatFrom(tmpl, args, i, k) ==
    IF i > Len(tmpl) THEN Result("", <<>>)
    ELSE IF i < Len(tmpl) /\ tmpl[i] \in {"{", "}"} /\ tmpl[i + 1] = tmpl[i] THEN
        Then(Result("", <<tmpl[i]>>), FormatFrom(tmpl, args, i + 2, k))
    ELSE IF tmpl[i] = "}" THEN Result("ValueError", <<>>)
    ELSE IF tmpl[i] = "{" THEN FormatField(tmpl, args, i, k, FindClose(tmpl, i + 1))
    ELSE Then(Result("", <<tmpl[i]>>), FormatFrom(tmpl, args, i + 1, k))

\* tmpl.format(*args)
Format(tmpl, args) == FormatFrom(tmpl, args, 1, 0)

---------------------------------------------------------------------------
(* class Column, and its subclasses Row and Header *)

\* format=None
None == [set |-> FALSE, s |-> <<>>]

\* format='...'
Some(s) == [set |-> TRUE, s |-> s]

\* The accessor handed to a Column: lambda *args: args[i - 1]
ItemGetter(i) == [item |-> i]

\* self.__get_value(*args): [err, v]
GetValue(col, args) ==
    IF col.get_value.item <= Len(args)
    THEN [err |-> "", v |-> args[col.get_value.item]]
    ELSE [err |-> "IndexError", v |-> StrVal(<<>>)]

\* ColumnFormat without the precision: f'{{:{size}}}', which pads and never cuts
ColumnFormatNoPrecision(a, size) == <<"{", ":">> \o a \o IntToStr(size) \o <<"}">>

\* f'{{:{size}.{size}}}' with the alignment character a ("" for none) before it
ColumnFormat(a, size) == <<"{", ":">> \o a \o IntToStr(size) \o <<".">> \o IntToStr(size) \o <<"}">>

\* ColumnOf with the alignment of the directive ignored: every column left-aligned
ColumnOfLeftAligned(cls, get_value, size, format, name) ==
    [cls          |-> cls,
     get_value    |-> get_value,
     size         |-> size,
     format       |-> ColumnFormat(<<>>, size),
     value_format |-> format,
     name         |-> name]

\* the fields Column.__init__ sets, size being max(size, len(name))
ColumnOf(cls, get_value, size, format, name) ==
    [cls          |-> cls,
     get_value    |-> get_value,
     size         |-> size,
     format       |-> IF ~format.set THEN ColumnFormat(<<>>, size)
                      ELSE IF Contains(format.s, ">") THEN ColumnFormat(<<">">>, size)
                      ELSE IF Contains(format.s, "^") THEN ColumnFormat(<<"^">>, size)
                      ELSE ColumnFormat(<<"<">>, size),
     value_format |-> format,
     name         |-> name]

\* Column.__init__; cls is "Column", "Row" or "Header"
NewColumn(cls, get_value, size, format, name) ==
    ColumnOf(cls, get_value, Max(size, Len(name)), format, name)

\* the str f as a value
AsValue(f) == [err |-> f.err, v |-> StrVal(f.s)]

\* self.__value_format.format(value) of a value g the accessor returned
Formatted(col, g) ==
    IF g.err # "" THEN g ELSE AsValue(Format(col.value_format.s, <<g.v>>))

\* Column.get_str: [err, v]; v is the formatted str, or the accessor's value as it is
GetStr(col, args) ==
    IF col.value_format.set THEN Formatted(col, GetValue(col, args))
    ELSE GetValue(col, args)

---------------------------------------------------------------------------
(* class RowPrinter *)

\* click.secho(text, reverse=reverse, file=file): the line the file receives
Line(text, reverse) == [text |-> text, reverse |-> reverse]

\* What a call can hand back: None, an object, or nothing when it raises.
NoneValue == [kind |-> "None", obj |-> <<>>]

Object(o) == [kind |-> "object", obj |-> o]

Nothing == [kind |-> "nothing", obj |-> <<>>]

\* What a call does: the exception it raises ("" for none), the lines it writes
\* before that, what it returns.
Returned(lines, value) == [err |-> "", lines |-> lines, ret |-> value]

Raised(e, lines) == [err |-> e, lines |-> lines, ret |-> Nothing]

\* '| ' + ' | '.join(formats) + ' |'
RowFormat(formats) == <<"|", " ">> \o Join(<<" ", "|", " ">>, formats) \o <<" ", "|">>

\* the fields RowPrinter.__init__ sets
RowPrinterOf(cols, format_str) ==
    [columns    |-> cols,
     format_str |-> format_str,
     sep_str    |-> <<"+", "-">>
                    \o Join(<<"-", "+", "-">>, [i \in 1..Len(cols) |-> Rep("-", cols[i].size)])
                    \o <<"-", "+">>,
     header     |-> Format(format_str, [i \in 1..Len(cols) |-> StrVal(cols[i].name)]).s]

\* RowPrinter.__init__
NewRowPrinter(cols) == RowPrinterOf(cols, RowFormat([i \in 1..Len(cols) |-> cols[i].format]))

\* RowPrinter.print_header
RowPrintHeader(p) == Returned(<<Line(p.header, TRUE)>>, NoneValue)

\* RowPrinter.print_separater
RowPrintSeparater(p) == Returned(<<Line(p.sep_str, FALSE)>>, NoneValue)

\* the line of a call that formatted f, or the exception f is
Emit(f) ==
    IF f.err # "" THEN Raised(f.err, <<>>) ELSE Returned(<<Line(f.s, FALSE)>>, NoneValue)

\* values.append(g) when g did not raise
AppendValue(g, rest) ==
    IF g.err # "" THEN [err |-> g.err, vs |-> <<>>]
    ELSE IF rest.err # "" THEN rest
    ELSE [err |-> "", vs |-> <<g.v>> \o rest.vs]

\* The loop of print_data from column i on: [err, vs], the first exception or
\* the values of the columns.
RECURSIVE ColumnValues(_, _, _)
ColumnValues(cols, args, i) ==
    IF i > Len(cols) THEN [err |-> "", vs |-> <<>>]
    ELSE AppendValue(GetStr(cols[i], args), ColumnValues(cols, args, i + 1))

\* tmpl.format(*values), unless collecting the values raised
FormatValues(tmpl, values) ==
    IF values.err # "" THEN Result(values.err, <<>>) ELSE Format(tmpl, values.vs)

\* RowPrinter.print_data
RowPrintData(p, args) ==
    Emit(FormatValues(p.format_str, ColumnValues(p.columns, args, 1)))

\* f'{{:{w}}}'
WidthFormat(w) == <<"{", ":">> \o IntToStr(w) \o <<"}">>

\* SpannedFormats with the ' | ' of an absorbed column forgotten: spanned += c.size
RECURSIVE SpannedFormatsNoSeparator(_, _, _, _, _)
SpannedFormatsNoSeparator(cols, idx, size, i, spanned) ==
    IF i > Len(cols) THEN <<>>
    ELSE IF i - 1 < idx THEN
        <<WidthFormat(cols[i].size)>> \o SpannedFormatsNoSeparator(cols, idx, size, i + 1, spanned)
    ELSE IF i - 1 < idx + size - 1 THEN
        SpannedFormatsNoSeparator(cols, idx, size, i + 1, spanned + cols[i].size)
    ELSE <<WidthFormat(cols[i].size + spanned)>>
         \o SpannedFormatsNoSeparator(cols, idx, size, i + 1, 0)

\* The loop of print_spanned from column i (1-based here, idx stays 0-based):
\* the formats appended from there on, `spanned` being the width absorbed so far.
RECURSIVE SpannedFormats(_, _, _, _, _)
SpannedFormats(cols, idx, size, i, spanned) ==
    IF i > Len(cols) THEN <<>>
    ELSE IF i - 1 < idx THEN
        <<WidthFormat(cols[i].size)>> \o SpannedFormats(cols, idx, size, i + 1, spanned)
    ELSE IF i - 1 < idx + size - 1 THEN
        SpannedFormats(cols, idx, size, i + 1, spanned + cols[i].size + 3)
    ELSE <<WidthFormat(cols[i].size + spanned)>> \o SpannedFormats(cols, idx, size, i + 1, 0)

\* RowPrinter.print_spanned
RowPrintSpanned(p, idx, size, data) ==
    Emit(Format(RowFormat(SpannedFormats(p.columns, idx, size, 1, 0)), data))

\* GroupSpanned counting two characters for each ' | ': spanned += c.size+2
RECURSIVE GroupSpannedOffByOne(_, _, _)
GroupSpannedOffByOne(cols, idx, size) ==
    IF size = 0 THEN 0
    ELSE GroupSpannedOffByOne(cols, idx, size - 1) + cols[idx + size].size + 2

\* The inner loop of print_row over the `size` columns after the first idx, all
\* of them in range: the sum of c.size+3.
RECURSIVE GroupSpanned(_, _, _)
GroupSpanned(cols, idx, size) ==
    IF size = 0 THEN 0
    ELSE GroupSpanned(cols, idx, size - 1) + cols[idx + size].size + 3

\* formats.append(f'{{:{w}}}') when the rest of the loop does not raise
AppendWidth(w, rest) ==
    IF rest.err # "" THEN rest ELSE [err |-> "", ws |-> <<w>> \o rest.ws]

\* The outer loop of print_row over the groups with idx columns consumed:
\* [err, ws], the width spanned-3 of each format, or the IndexError of
\* self.__columns[i+idx] past the last column.
RECURSIVE GroupWidths(_, _, _)
GroupWidths(cols, groups, idx) ==
    IF groups = <<>> THEN [err |-> "", ws |-> <<>>]
    ELSE IF idx + Head(groups).size > Len(cols) THEN [err |-> "IndexError", ws |-> <<>>]
    ELSE AppendWidth(GroupSpanned(cols, idx, Head(groups).size) - 3,
                     GroupWidths(cols, Tail(groups), idx + Head(groups).size))

\* format_str.format(*values) of print_row, unless the loop raised
FormatGroups(w, groups) ==
    IF w.err # "" THEN Result(w.err, <<>>)
    ELSE Format(RowFormat([i \in 1..Len(w.ws) |-> WidthFormat(w.ws[i])]),
                [i \in 1..Len(groups) |-> groups[i].value])

\* RowPrinter.print_row; a group is [size, value] with size >= 1
RowPrintRow(p, groups) == Emit(FormatGroups(GroupWidths(p.columns, groups, 0), groups))

---------------------------------------------------------------------------
(* class MapPrinter *)

RECURSIVE MaxOver(_, _)
\* max(0, s[i], s[i+1], ...)
MaxOver(s, i) == IF i > Len(s) THEN 0 ELSE Max(s[i], MaxOver(s, i + 1))

IsHeader(row) == row.cls = "Header"

\* the loop of MapPrinter.__init__
MaxTitle(rows) == MaxOver([i \in 1..Len(rows) |-> IF IsHeader(rows[i]) THEN rows[i].size ELSE 0], 1)

MaxName(rows) == MaxOver([i \in 1..Len(rows) |-> IF IsHeader(rows[i]) THEN 0 ELSE Len(rows[i].name)], 1)

MaxValue0(rows) == MaxOver([i \in 1..Len(rows) |-> IF IsHeader(rows[i]) THEN 0 ELSE rows[i].size], 1)

\* max_width = max(max_title, max_value+max_name+3)
MaxWidth(rows) == Max(MaxTitle(rows), MaxValue0(rows) + MaxName(rows) + 3)

\* if max_width > max_title: max_value = max_width - (max_name+3)
Widen(max_title, max_name, max_value, max_width) ==
    IF max_width > max_title THEN max_width - (max_name + 3) ELSE max_value

\* max_value as the templates use it
MaxValue(rows) == Widen(MaxTitle(rows), MaxName(rows), MaxValue0(rows), MaxWidth(rows))

\* TwoFieldFormat with a precision in both fields, which cuts what does not fit
TwoFieldFormatCut(a, max_name, b, max_value) ==
    <<"|", " ", "{", ":", a>> \o IntToStr(max_name) \o <<".">> \o IntToStr(max_name)
    \o <<"}", " ", "|", " ", "{", ":", b>>
    \o IntToStr(max_value) \o <<".">> \o IntToStr(max_value) \o <<"}", " ", "|">>

\* '| ' + f'{{:a{max_name}}}' + ' | ' + f'{{:b{max_value}}}' + ' |'
TwoFieldFormat(a, max_name, b, max_value) ==
    <<"|", " ", "{", ":", a>> \o IntToStr(max_name) \o <<"}", " ", "|", " ", "{", ":", b>>
    \o IntToStr(max_value) \o <<"}", " ", "|">>

\* the fields MapPrinter.__init__ sets
MapPrinterOf(rows, max_name, max_value, max_width) ==
    [rows          |-> rows,
     format_title  |-> <<"|", " ", "{", ":", "^">> \o IntToStr(max_width) \o <<"}", " ", "|">>,
     sep_str       |-> <<"+", "-">> \o Rep("-", max_name) \o <<"-", "+", "-">>
                       \o Rep("-", max_value) \o <<"-", "+">>,
     format_left   |-> TwoFieldFormat(">", max_name, "<", max_value),
     format_right  |-> TwoFieldFormat(">", max_name, ">", max_value),
     format_center |-> TwoFieldFormat("^", max_name, "^", max_value),
     header        |-> Format(TwoFieldFormat("^", max_name, "^", max_value),
                              <<StrVal(<<"N", "a", "m", "e">>),
                                StrVal(<<"V", "a", "l", "u", "e">>)>>).s]

\* MapPrinter.__init__
NewMapPrinter(rows) == MapPrinterOf(rows, MaxName(rows), MaxValue(rows), MaxWidth(rows))

\* MapPrinter.print_header
MapPrintHeader(p) == Returned(<<Line(p.header, TRUE)>>, Object(p))

\* MapPrinter.print_separater
MapPrintSeparater(p) == Returned(<<Line(p.sep_str, FALSE)>>, Object(p))

\* f[-row.size:] when '>' is in row.format, f[:row.size] otherwise
Slice(row, f) ==
    IF f.err # "" THEN f
    ELSE IF Contains(row.format, ">") THEN Result("", Last(f.s, row.size))
    ELSE Result("", Take(f.s, row.size))

\* value_str of print_data for the value get_str returned: [err, s]
ValueStr(row, value) == Slice(row, Format(row.format, <<value>>))

\* value_str of print_data, unless get_str raised
ValueOf(row, g) == IF g.err # "" THEN Result(g.err, <<>>) ELSE ValueStr(row, g.v)

\* format_str of print_data
BodyFormat(p, row) ==
    IF Contains(row.format, ">") THEN p.format_right
    ELSE IF Contains(row.format, "^") THEN p.format_center
    ELSE p.format_left

\* the click.secho of one row of print_data whose value_str is v: [err, lines]
FieldLine(p, row, v) ==
    IF v.err # "" THEN [err |-> v.err, lines |-> <<>>]
    ELSE IF IsHeader(row) THEN
        [err |-> "", lines |-> <<Line(Format(p.format_title, <<StrVal(v.s)>>).s, TRUE)>>]
    ELSE
        [err |-> "",
         lines |-> <<Line(Format(BodyFormat(p, row), <<StrVal(row.name), StrVal(v.s)>>).s, FALSE)>>]

\* One iteration of the loop of print_data: [err, lines]
MapPrintField(p, row, args) == FieldLine(p, row, ValueOf(row, GetStr(row, args)))

\* ThenLines writing the lines only when no later iteration raises
ThenLinesAllOrNothing(one, rest) ==
    IF one.err # "" THEN one
    ELSE IF rest.err # "" THEN [err |-> rest.err, lines |-> <<>>]
    ELSE [err |-> "", lines |-> one.lines \o rest.lines]

\* the lines of one iteration, then those of the rest unless it raised
ThenLines(one, rest) ==
    IF one.err # "" THEN one ELSE [err |-> rest.err, lines |-> one.lines \o rest.lines]

\* The loop of print_data from row i on: [err, lines]
RECURSIVE MapPrintFrom(_, _, _)
MapPrintFrom(p, args, i) ==
    IF i > Len(p.rows) THEN [err |-> "", lines |-> <<>>]
    ELSE ThenLines(MapPrintField(p, p.rows[i], args), MapPrintFrom(p, args, i + 1))

\* Finish without `return self`
FinishReturnsNone(p, r) ==
    IF r.err # "" THEN Raised(r.err, r.lines) ELSE Returned(r.lines, NoneValue)

\* return self, or the exception of the loop after the lines written before it
Finish(p, r) == IF r.err # "" THEN Raised(r.err, r.lines) ELSE Returned(r.lines, Object(p))

\* MapPrinter.print_data
MapPrintData(p, args) == Finish(p, MapPrintFrom(p, args, 1))

---------------------------------------------------------------------------
(* The inputs *)

\* the most columns a printer is built from
MaxCols == 2

\* the most calls made in a row on one pair of printers
MaxCalls == 2

Long == StrVal(<<"a", "b", "c", "d", "e", "f", "g">>)

Short == StrVal(<<"x", "y">>)

Empty == StrVal(<<>>)

Seven == IntVal(7)

Ok == StrVal(<<"o", "k">>)

\* <<size, format, name>> of the Row fields: widths 0, 2, 3 and 5; no directive
\* and directives with '>', with '^' and with neither; labels of 0, 1, 2 and 4
\* characters, one of them longer than the size given.
RowShapes ==
    { <<0, None, <<>>>>,
      <<3, None, <<>>>>,
      <<0, Some(<<"{", ":", ">", "}">>), <<>>>>,
      <<2, Some(<<"{", ":", ">", "}">>), <<"N">>>>,
      <<5, Some(<<"{", ":", "^", "}">>), <<"N", "a", "m", "e">>>>,
      <<1, Some(<<"{", "}">>), <<"a", "b">>>> }

\* <<size, format, name>> of the Header fields: titles narrower and wider than
\* the values, and than any two-column body of the Row fields
HeaderShapes ==
    { <<3, None, <<>>>>,
      <<2, Some(<<"{", ":", ">", "}">>), <<>>>>,
      <<5, Some(<<"{", ":", "^", "}">>), <<>>>>,
      <<12, Some(<<"{", ":", ">", "}">>), <<"T">>>> }

\* the fields a printer may have at position i; field i reads args[i - 1]
Fields(i) ==
    {NewColumn("Row", ItemGetter(i), sh[1], sh[2], sh[3]) : sh \in RowShapes}
    \cup {NewColumn("Header", ItemGetter(i), sh[1], sh[2], sh[3]) : sh \in HeaderShapes}

RECURSIVE FieldLists(_)
\* the lists of n fields
FieldLists(n) ==
    IF n = 0 THEN {<<>>}
    ELSE {Append(l, f) : l \in FieldLists(n - 1), f \in Fields(n)}

ColumnLists == UNION {FieldLists(n) : n \in 0..MaxCols}

\* the columns of the worked example: ID, width 4, format ">"; Status, width 8
ExampleColumns ==
    <<NewColumn("Column", ItemGetter(1), 4, Some(<<">">>), <<"I", "D">>),
      NewColumn("Column", ItemGetter(2), 8, None, <<"S", "t", "a", "t", "u", "s">>)>>

\* the field lists the chained calls are made on
ChainLists ==
    { ExampleColumns,
      <<NewColumn("Header", ItemGetter(1), 3, None, <<>>),
        NewColumn("Row", ItemGetter(2), 2, Some(<<"{", ":", ">", "}">>), <<"N">>)>>,
      <<NewColumn("Row", ItemGetter(1), 2, Some(<<"{", ":", ">", "}">>), <<"N">>),
        NewColumn("Row", ItemGetter(2), 5, Some(<<"{", ":", ".", "3", "}">>), <<"N", "a", "m", "e">>)>> }

\* the records: one value for every field, a record one value long, the example's
Records ==
    {[i \in 1..MaxCols |-> v] : v \in {Long, Short, Empty, Seven}}
    \cup {<<Long>>, <<Seven, Ok>>}

\* print_spanned(idx, size, data) on n columns: a span inside the columns and one
\* value for every slot
SpannedCalls(n) ==
    {[idx |-> i, size |-> k, data |-> [j \in 1..(n - k + 1) |-> v]] :
        i \in 0..(n - 1), k \in 1..n, v \in {Long, Short}}

RECURSIVE SizeLists(_)
\* the lists of group sizes >= 1 that sum to total
SizeLists(total) ==
    IF total = 0 THEN {<<>>}
    ELSE UNION {{<<k>> \o l : l \in SizeLists(total - k)} : k \in 1..total}

\* print_row(cols) on n columns: groups whose sizes sum to at most n + 1
RowCalls(n) ==
    {[i \in 1..Len(l) |-> [size |-> l[i], value |-> v]] :
        l \in UNION {SizeLists(t) : t \in 1..(n + 1)}, v \in {Long, Short}}

---------------------------------------------------------------------------
(* The state machine *)

\* Both printers are constructed over the same fields and write to the same file.
Constructed(cols) ==
    /\ columns = cols
    /\ rp = NewRowPrinter(cols)
    /\ mp = NewMapPrinter(cols)
    /\ out = <<>>
    /\ err = ""
    /\ ret = Nothing
    /\ log = <<>>

Init == \E cols \in ColumnLists : Constructed(cols)

InitChain == \E cols \in ChainLists : Constructed(cols)

\* A call op(args) that did r: its lines reach the file, in order.
Call(op, args, r) ==
    /\ out' = out \o r.lines
    /\ err' = r.err
    /\ ret' = r.ret
    /\ log' = Append(log, [op |-> op, args |-> args, lines |-> r.lines, err |-> r.err])
    /\ UNCHANGED <<columns, rp, mp>>

\* no call was made yet
Fresh == log = <<>>

\* fewer than MaxCalls calls were made
More == Len(log) < MaxCalls

\* The calls, each made when `can` holds.
RowHeader(can) == can /\ Call("RowPrinter.print_header", <<>>, RowPrintHeader(rp))

RowSeparater(can) == can /\ Call("RowPrinter.print_separater", <<>>, RowPrintSeparater(rp))

RowData(can) ==
    /\ can
    /\ \E args \in Records : Call("RowPrinter.print_data", args, RowPrintData(rp, args))

RowSpanned(can) ==
    /\ can
    /\ \E c \in SpannedCalls(Len(columns)) :
        /\ c.idx + c.size <= Len(columns)
        /\ Call("RowPrinter.print_spanned", c, RowPrintSpanned(rp, c.idx, c.size, c.data))

RowRow(can) ==
    /\ can
    /\ \E g \in RowCalls(Len(columns)) : Call("RowPrinter.print_row", g, RowPrintRow(rp, g))

MapHeader(can) == can /\ Call("MapPrinter.print_header", <<>>, MapPrintHeader(mp))

MapSeparater(can) == can /\ Call("MapPrinter.print_separater", <<>>, MapPrintSeparater(mp))

MapData(can) ==
    /\ can
    /\ \E args \in Records : Call("MapPrinter.print_data", args, MapPrintData(mp, args))

\* one call on freshly constructed printers
Next ==
    \/ RowHeader(Fresh)
    \/ RowSeparater(Fresh)
    \/ RowData(Fresh)
    \/ RowSpanned(Fresh)
    \/ RowRow(Fresh)
    \/ MapHeader(Fresh)
    \/ MapSeparater(Fresh)
    \/ MapData(Fresh)

Spec == Init /\ [][Next]_vars

\* up to MaxCalls calls, one after the other
NextChain ==
    \/ RowHeader(More)
    \/ RowSeparater(More)
    \/ RowData(More)
    \/ MapHeader(More)
    \/ MapSeparater(More)
    \/ MapData(More)

SpecChain == InitChain /\ [][NextChain]_vars

---------------------------------------------------------------------------
(* What the claims are stated with *)

\* the calls of op made so far, as positions of the log
Calls(op) == {i \in 1..Len(log) : log[i].op = op}

\* the largest element of a set of naturals, 0 for the empty set
SetMax(S) == IF S = {} THEN 0 ELSE CHOOSE m \in S : \A x \in S : x <= m

RECURSIVE SumSizes(_, _, _)
\* the sum of the widths of columns a..b
SumSizes(cols, a, b) == IF a > b THEN 0 ELSE cols[a].size + SumSizes(cols, a + 1, b)

RECURSIVE SumOf(_)
\* the sum of a sequence of numbers
SumOf(ns) == IF ns = <<>> THEN 0 ELSE Head(ns) + SumOf(Tail(ns))

\* s with blanks after it up to width w, never cut
LeftIn(s, w) == s \o [i \in 1..(IF w > Len(s) THEN w - Len(s) ELSE 0) |-> " "]

\* the row "| c1 | c2 | ... |" of the cells
Framed(cells) == <<"|", " ">> \o Join(<<" ", "|", " ">>, cells) \o <<" ", "|">>

\* the only line of a call that wrote exactly one
TextOf(e) == e.lines[1].text

\* the string column c displays for the record args, when it displays one
Displays(c, args) == GetStr(columns[c], args).err = "" /\ GetStr(columns[c], args).v.t = "str"

Display(c, args) == GetStr(columns[c], args).v.s

---------------------------------------------------------------------------
(* RowPrinter *)

\* C1: The separator line and the header line of a RowPrinter have the same
\* length, and print_data on a record whose cells all display as strings writes
\* one line of that length, whatever the strings' lengths.
C1_RowLinesSameLength ==
    /\ Len(rp.header) = Len(rp.sep_str)
    /\ \A i \in Calls("RowPrinter.print_header") : Len(TextOf(log[i])) = Len(rp.sep_str)
    /\ \A i \in Calls("RowPrinter.print_separater") : TextOf(log[i]) = rp.sep_str
    /\ \A i \in Calls("RowPrinter.print_data") :
          (\A c \in 1..Len(columns) : Displays(c, log[i].args))
          => /\ log[i].err = ""
             /\ Len(log[i].lines) = 1
             /\ Len(TextOf(log[i])) = Len(rp.sep_str)
             /\ Len(TextOf(log[i])) = Len(rp.header)

\* C1 witness: print_data wrote a line for two columns, one of width 0, with a
\* cell longer than its column and a cell shorter than its column.
C1_Witness ==
    \E i \in Calls("RowPrinter.print_data") :
        /\ Len(columns) = 2
        /\ log[i].err = ""
        /\ \E c \in 1..2 : columns[c].size = 0
        /\ \E c \in 1..2 : Len(Display(c, log[i].args)) > columns[c].size
        /\ \E c \in 1..2 : Len(Display(c, log[i].args)) < columns[c].size

\* the widths of the slots of print_spanned(idx, size, ...): the columns before
\* idx, the merged slot, the columns after the span
SlotWidths(idx, size) ==
    [j \in 1..(Len(columns) - size + 1) |->
        IF j <= idx THEN columns[j].size
        ELSE IF j = idx + 1 THEN SumSizes(columns, idx + 1, idx + size) + 3 * (size - 1)
        ELSE columns[j + size - 1].size]

\* the values of a print_spanned call all fit their slots
SpannedFits(c) == \A j \in 1..Len(c.data) : Len(c.data[j].s) <= SlotWidths(c.idx, c.size)[j]

\* C4 as claimed: for strings of any length the row print_spanned writes is as
\* long as the header line and the separator line.
C4_SpannedAnyLength ==
    \A i \in Calls("RowPrinter.print_spanned") :
        /\ log[i].err = ""
        /\ Len(TextOf(log[i])) = Len(rp.header)
        /\ Len(TextOf(log[i])) = Len(rp.sep_str)

\* C4 amended: print_spanned pads the merged slot to the sum of the spanned
\* columns' widths + 3*(size-1) and every other slot to its own column's width,
\* cutting nothing; the row is as long as the header and separator lines when
\* every value fits its slot, and longer when one does not.
C4_SpannedMinWidths ==
    \A i \in Calls("RowPrinter.print_spanned") :
        LET c == log[i].args IN
        /\ log[i].err = ""
        /\ Len(log[i].lines) = 1
        /\ TextOf(log[i]) =
              Framed([j \in 1..Len(c.data) |-> LeftIn(c.data[j].s, SlotWidths(c.idx, c.size)[j])])
        /\ SpannedFits(c) => /\ Len(TextOf(log[i])) = Len(rp.header)
                             /\ Len(TextOf(log[i])) = Len(rp.sep_str)
        /\ ~SpannedFits(c) => Len(TextOf(log[i])) > Len(rp.sep_str)

\* C4 witness: a span of two columns in front of nothing, with a value that fits.
C4_Witness ==
    \E i \in Calls("RowPrinter.print_spanned") :
        /\ log[i].args.size = 2
        /\ log[i].err = ""
        /\ SpannedFits(log[i].args)
        /\ SumSizes(columns, 1, 2) > 0

\* the columns the groups of a print_row call consume
Consumed(groups) == SumOf([k \in 1..Len(groups) |-> groups[k].size])

\* C5 as claimed: print_row raises and writes nothing whenever the group sizes
\* do not sum to the number of columns.
C5_RowRejectsMismatch ==
    \A i \in Calls("RowPrinter.print_row") :
        Consumed(log[i].args) # Len(columns) => log[i].err # "" /\ log[i].lines = <<>>

\* the columns consumed before group k
Before(groups, k) == SumOf([j \in 1..(k - 1) |-> groups[j].size])

\* the sum of the widths of the columns of group k
GroupSum(groups, k) == SumSizes(columns, Before(groups, k) + 1, Before(groups, k) + groups[k].size)

\* the width print_row gives the format of group k
GroupWidth(groups, k) == GroupWidths(columns, groups, 0).ws[k]

\* C6 as claimed: the width of a group of print_row is the sum of its columns'
\* widths + 3*(count-1) - 3.
C6_GroupWidthMinusThree ==
    \A i \in Calls("RowPrinter.print_row") :
        log[i].err = "" =>
            \A k \in 1..Len(log[i].args) :
                GroupWidth(log[i].args, k)
                    = GroupSum(log[i].args, k) + 3 * (log[i].args[k].size - 1) - 3

\* C6 amended: the width of a group of print_row is the sum of its columns'
\* widths + 3*(count-1), and the row holds one value for each group, padded to
\* that width.
C6_GroupWidth ==
    \A i \in Calls("RowPrinter.print_row") :
        LET g == log[i].args IN
        Consumed(g) <= Len(columns) =>
            /\ log[i].err = ""
            /\ \A k \in 1..Len(g) : GroupWidth(g, k) = GroupSum(g, k) + 3 * (g[k].size - 1)
            /\ TextOf(log[i]) =
                  Framed([k \in 1..Len(g) |->
                            LeftIn(g[k].value.s, GroupSum(g, k) + 3 * (g[k].size - 1))])

\* C6 witness: a row of a two-column group whose value fits.
C6_Witness ==
    \E i \in Calls("RowPrinter.print_row") :
        /\ log[i].err = ""
        /\ \E k \in 1..Len(log[i].args) :
              /\ log[i].args[k].size = 2
              /\ Len(log[i].args[k].value.s) < GroupSum(log[i].args, k)

---------------------------------------------------------------------------
(* MapPrinter *)

\* the fields that are not Header-tagged
BodyFields == {j \in 1..Len(columns) : columns[j].cls # "Header"}

TitleFields == {j \in 1..Len(columns) : columns[j].cls = "Header"}

\* maxTitleWidth, maxLabelWidth and maxValueWidth of the field list
TitleWidth == SetMax({columns[j].size : j \in TitleFields})

LabelWidth == SetMax({Len(columns[j].name) : j \in BodyFields})

ValueWidth == SetMax({columns[j].size : j \in BodyFields})

FullWidth == IF TitleWidth >= LabelWidth + ValueWidth + 3 THEN TitleWidth
             ELSE LabelWidth + ValueWidth + 3

\* C2 as claimed: fullWidth = max(maxTitleWidth, maxLabelWidth + maxValueWidth + 3)
\* and every line print_data writes, for a Header field or for a Row field, is as
\* long as the separator line.
C2_PanelLinesSameLength ==
    /\ MaxWidth(mp.rows) = FullWidth
    /\ \A i \in Calls("MapPrinter.print_data") :
          \A j \in 1..Len(log[i].lines) :
              Len(log[i].lines[j].text) = Len(mp.sep_str)

\* the last w characters of s
Rightmost(s, w) == SubSeq(s, Len(s) - w + 1, Len(s))

\* the first w characters of s
Leftmost(s, w) == SubSeq(s, 1, w)

\* field j is right-aligned: its format directive holds '>'
RightAligned(j) == columns[j].value_format.set /\ Contains(columns[j].value_format.s, ">")

\* the line print_data writes for field j when the value placed in it is v
LineWith(j, v) ==
    IF columns[j].cls = "Header"
    THEN Line(Format(mp.format_title, <<StrVal(v)>>).s, TRUE)
    ELSE Line(Format(BodyFormat(mp, columns[j]), <<StrVal(columns[j].name), StrVal(v)>>).s, FALSE)

\* C3 as claimed: print_data places in the row of a field whose displayed string
\* is longer than the field's width w the rightmost w characters of the string
\* when the field is right-aligned and the leftmost w characters otherwise.
C3_OverflowKeepsTail ==
    \A i \in Calls("MapPrinter.print_data") :
        \A j \in 1..Len(log[i].lines) :
            Len(Display(j, log[i].args)) > columns[j].size
            => log[i].lines[j] =
                  LineWith(j, IF RightAligned(j)
                              THEN Rightmost(Display(j, log[i].args), columns[j].size)
                              ELSE Leftmost(Display(j, log[i].args), columns[j].size))

\* C10 as claimed: the caption line print_header writes is as long as the
\* separator line print_separater writes.
C10_CaptionMatchesSeparator ==
    \A i \in Calls("MapPrinter.print_header") : Len(TextOf(log[i])) = Len(mp.sep_str)

\* the width of the value column of the separator line
FinalValueWidth == Len(mp.sep_str) - LabelWidth - 7

\* C10 amended: the caption line is "| Name | Value |" with each word centered in
\* at least its column's width and never cut: it is as long as the separator
\* line exactly when the label column is at least 4 wide and the value column at
\* least 5 wide, and longer otherwise.
C10_CaptionLength ==
    \A i \in Calls("MapPrinter.print_header") :
          /\ Len(TextOf(log[i])) = SetMax({LabelWidth, 4}) + SetMax({FinalValueWidth, 5}) + 7
          /\ (LabelWidth >= 4 /\ FinalValueWidth >= 5)
                => Len(TextOf(log[i])) = Len(mp.sep_str)
          /\ (LabelWidth < 4 \/ FinalValueWidth < 5)
                => Len(TextOf(log[i])) > Len(mp.sep_str)

\* C10 witness: print_header on a panel with a Row field whose columns are wide
\* enough for the caption.
C10_Witness ==
    \E i \in Calls("MapPrinter.print_header") :
        /\ BodyFields # {}
        /\ LabelWidth >= 4
        /\ FinalValueWidth >= 5

---------------------------------------------------------------------------
(* Failing and chained calls *)

\* the call a step makes
Made == log'[Len(log')]

\* get_str of field j raises for the record: the accessor or the directive fails
GetStrFails(j, args) == GetStr(columns[j], args).err # ""

\* print_data of the MapPrinter raises at field j
FieldFails(j, args) ==
    \/ GetStrFails(j, args)
    \/ ValueStr(columns[j], GetStr(columns[j], args).v).err # ""

\* the fields before the first one at which print_data of the MapPrinter raises
Preceding(args) == {j \in 1..Len(columns) : \A k \in 1..j : ~FieldFails(k, args)}

\* the complete line of field j for the record
FieldLineOf(j, args) == LineWith(j, ValueStr(columns[j], GetStr(columns[j], args).v).s)

\* C7: A print_data call in which an accessor or a format directive fails raises
\* the error; on the RowPrinter it writes nothing, on the MapPrinter it writes
\* exactly the complete lines of the fields before the failing one, in order;
\* and the lines written by earlier calls stay in the file as they were.
C7_NoPartialRow ==
    [][/\ SubSeq(out', 1, Len(out)) = out
       /\ (Made.op \in {"RowPrinter.print_data", "MapPrinter.print_data"}
           /\ \E j \in 1..Len(columns) : GetStrFails(j, Made.args))
          => /\ Made.err # ""
             /\ err' = Made.err
             /\ ret' = Nothing
       /\ (Made.op = "RowPrinter.print_data" /\ Made.err # "") => out' = out
       /\ (Made.op = "MapPrinter.print_data" /\ Made.err # "")
          => /\ Preceding(Made.args) # 1..Len(columns)
             /\ out' = out \o [j \in Preceding(Made.args) |-> FieldLineOf(j, Made.args)]
      ]_vars

\* C7 witness: after a call that wrote a line, print_data of the MapPrinter wrote
\* the line of its first field and raised the ValueError of the second field's
\* directive.
C7_Witness ==
    /\ Len(log) = 2
    /\ log[1].lines # <<>>
    /\ log[2].op = "MapPrinter.print_data"
    /\ GetStr(columns[2], log[2].args).err = "ValueError"
    /\ log[2].err = "ValueError"
    /\ Len(log[2].lines) = 1

MapOps == {"MapPrinter.print_header", "MapPrinter.print_separater", "MapPrinter.print_data"}

\* C8: A call of print_header, print_separater or print_data on the MapPrinter
\* that returns, returns the printer itself and leaves its fields as they were;
\* its lines follow the earlier calls' lines in the file, those of print_data in
\* the order of the field list; and it writes the same lines as every earlier
\* call of the same method with the same record.
C8_ChainedCalls ==
    [][(Made.op \in MapOps /\ Made.err = "")
       => /\ ret' = Object(mp)
          /\ mp' = mp
          /\ columns' = columns
          /\ out' = out \o Made.lines
          /\ Made.op = "MapPrinter.print_header" => Made.lines = <<Line(mp.header, TRUE)>>
          /\ Made.op = "MapPrinter.print_separater" => Made.lines = <<Line(mp.sep_str, FALSE)>>
          /\ Made.op = "MapPrinter.print_data"
             => Made.lines = [j \in 1..Len(columns) |-> FieldLineOf(j, Made.args)]
          /\ \A i \in 1..Len(log) :
                (log[i].op = Made.op /\ log[i].args = Made.args) => log[i].lines = Made.lines
      ]_vars

\* C8 witness: print_data(r).print_data(r) wrote the same two lines twice.
C8_Witness ==
    /\ Len(log) = 2
    /\ log[1].op = "MapPrinter.print_data"
    /\ log[2] = log[1]
    /\ Len(log[1].lines) = 2
    /\ out = log[1].lines \o log[1].lines
    /\ ret = Object(mp)

---------------------------------------------------------------------------
(* The worked example: columns ID (width 4, format ">") and Status (width 8) *)

\* "| ID   | Status   |"
HeaderAsClaimed ==
    <<"|", " ", "I", "D", " ", " ", " ", "|", " ", "S", "t", "a", "t", "u",
    "s", " ", " ", " ", "|">>

\* "+------+----------+"
SeparatorAsClaimed ==
    <<"+", "-", "-", "-", "-", "-", "-", "+", "-", "-", "-", "-", "-", "-",
    "-", "-", "-", "-", "+">>

\* "|    7 | ok       |"
DataAsClaimed ==
    <<"|", " ", " ", " ", " ", "7", " ", "|", " ", "o", "k", " ", " ", " ",
    " ", " ", " ", " ", "|">>

\* "|   ID | Status   |"
HeaderRightAligned ==
    <<"|", " ", " ", " ", "I", "D", " ", "|", " ", "S", "t", "a", "t", "u",
    "s", " ", " ", " ", "|">>

\* "|    > | ok       |"
DataOfDirective ==
    <<"|", " ", " ", " ", " ", ">", " ", "|", " ", "o", "k", " ", " ", " ",
    " ", " ", " ", " ", "|">>

\* C9 as claimed: the header line is "| ID   | Status   |", the separator line
\* "+------+----------+", and print_data(7, "ok") writes "|    7 | ok       |".
C9_ExampleAsClaimed ==
    columns = ExampleColumns
    => /\ \A i \in Calls("RowPrinter.print_header") :
             log[i].lines = <<Line(HeaderAsClaimed, TRUE)>>
       /\ \A i \in Calls("RowPrinter.print_separater") :
             log[i].lines = <<Line(SeparatorAsClaimed, FALSE)>>
       /\ \A i \in Calls("RowPrinter.print_data") :
             log[i].args = <<Seven, Ok>> => log[i].lines = <<Line(DataAsClaimed, FALSE)>>

\* C9 amended: the header line is "|   ID | Status   |" (the name is aligned as
\* the column is), the separator line "+------+----------+", and
\* print_data(7, "ok") writes "|    > | ok       |" (the directive ">" has no
\* replacement field, so it formats to itself).
C9_Example ==
    columns = ExampleColumns
    => /\ rp.header = HeaderRightAligned
       /\ rp.sep_str = SeparatorAsClaimed
       /\ \A i \in Calls("RowPrinter.print_header") :
             log[i].lines = <<Line(HeaderRightAligned, TRUE)>>
       /\ \A i \in Calls("RowPrinter.print_separater") :
             log[i].lines = <<Line(SeparatorAsClaimed, FALSE)>>
       /\ \A i \in Calls("RowPrinter.print_data") :
             log[i].args = <<Seven, Ok>> => log[i].lines = <<Line(DataOfDirective, FALSE)>>

\* C9 witness: the header and the record (7, "ok") were printed.
C9_Witness ==
    /\ columns = ExampleColumns
    /\ Len(log) = 2
    /\ log[1].op = "RowPrinter.print_header"
    /\ log[2].op = "RowPrinter.print_data"
    /\ log[2].args = <<Seven, Ok>>
    /\ log[2].err = ""

=============================================================================
